---- MODULE Spec2Model ----
(***************************************************************************)
(* Model of modules/model/Embedding/text2vec/model/base.py:                *)
(* BaseModel.__init__ / BaseSentenceModel.__init__ (construction),         *)
(* BaseSentenceModel.get_sentence_embeddings (pooling),                    *)
(* BaseSentenceModel.encode (batched encoding with length sort / restore)  *)
(* and BaseSentenceModel.evaluate (similarity evaluation).                 *)
(*                                                                         *)
(* Conventions.  Python lists are TLA+ sequences, so positions are 1-based *)
(* here where the source is 0-based; start_index keeps the source's        *)
(* 0-based value.  A raised exception is the pc "..._raised" with its type *)
(* in error.  Python's None is the record NoneValue for a pooling result   *)
(* and the string "None" for encoder_type.  A sentence is its sequence of  *)
(* characters.  An embedding is a record that says which sentence it was   *)
(* computed for, by which strategy, over how many token positions, at      *)
(* which row of the call (pos), where it lives (dev) and in which library  *)
(* format (lib).                                                           *)
(***************************************************************************)
EXTENDS Integers, Sequences, FiniteSets, TLC

\* ---- bounds of the model ------------------------------------------------
MaxSentences == 3
MaxChars == 2
MaxBatch == 2
MaxPairs == 2

\* ---- program constants --------------------------------------------------
max_seq_length == 128

VARIABLES
    pc,                   \* position of the (single-threaded) caller
    encoder_type,         \* self.encoder_type
    pooler_head,          \* whether self.model has a pooling head
    sentences,            \* encode: sentences, after the wrapping of line 185
    batch_size,           \* encode / evaluate: batch_size
    arg_convert_to_numpy, \* encode: convert_to_numpy as passed by the caller
    convert_to_numpy,     \* encode: convert_to_numpy after line 182
    convert_to_tensor,    \* encode: convert_to_tensor
    input_is_string,      \* encode: input_is_string
    length_sorted_idx,    \* encode: length_sorted_idx
    sentences_sorted,     \* encode: sentences_sorted
    start_index,          \* encode: loop variable; evaluate: DataLoader offset
    all_embeddings,       \* encode: all_embeddings
    embeddings,           \* last value returned by get_sentence_embeddings
    result,               \* value returned by encode
    error,                \* type of the exception raised, "None" if none
    adapter_log,          \* invocations of self.model, in order (history)
    eval_dataset,         \* evaluate: eval_dataset
    batch_labels,         \* evaluate: batch_labels
    batch_preds,          \* evaluate: batch_preds
    results,              \* evaluate: results
    corr_calls            \* evaluate: calls of compute_spearmanr/_pearsonr (history)

vars == <<pc, encoder_type, pooler_head, sentences, batch_size,
          arg_convert_to_numpy, convert_to_numpy, convert_to_tensor,
          input_is_string, length_sorted_idx, sentences_sorted, start_index,
          all_embeddings, embeddings, result, error, adapter_log,
          eval_dataset, batch_labels, batch_preds, results, corr_calls>>

objVars == <<encoder_type, pooler_head>>
encVars == <<sentences, arg_convert_to_numpy, convert_to_numpy,
             convert_to_tensor, input_is_string, length_sorted_idx,
             sentences_sorted, all_embeddings, result>>
evalVars == <<eval_dataset, batch_labels, batch_preds, results, corr_calls>>

\* ---- helpers ------------------------------------------------------------
Min(a, b) == IF a <= b THEN a ELSE b

SeqMax(s) == IF s = <<>> THEN 0 ELSE CHOOSE m \in {s[i] : i \in DOMAIN s} :
                                        \A i \in DOMAIN s : s[i] <= m

\* Python slice s[lo : hi] (0-based, hi exclusive, clipped to len(s)).
Slice(s, lo, hi) == SubSeq(s, lo + 1, Min(hi, Len(s)))

\* ---- inputs -------------------------------------------------------------
\* Sentences of 1..MaxChars characters; what distinguishes two sentences for
\* encode is their length and their position in the input.
Chars(k) == [i \in 1..k |-> "a"]
Sentences == {Chars(k) : k \in 1..MaxChars}

SentenceLists == UNION {[1..n -> Sentences] : n \in 0..MaxSentences}

EncoderType == {"FIRST_LAST_AVG", "LAST_AVG", "CLS", "POOLER", "MEAN"}

\* What a caller can pass as encoder_type: a string (a member's name or
\* not), a member of EncoderType, None, or some other object.
Selectors ==
    {[is_str |-> TRUE, v |-> x] : x \in EncoderType \cup {"BOGUS"}} \cup
    {[is_str |-> FALSE, v |-> x] : x \in EncoderType \cup {"None", "OBJECT"}}

Labels == {0, 1}
EvalTexts == {s \in Sentences : Len(s) <= 2}
Pairs == [source : EvalTexts, target : EvalTexts, label : Labels]
PairLists == UNION {[1..n -> Pairs] : n \in 1..MaxPairs}

NoneValue == [none |-> TRUE, rows |-> <<>>]
Some(rows) == [none |-> FALSE, rows |-> rows]
NoResult == [fmt |-> "none", unwrapped |-> FALSE, rows |-> <<>>]

\* ---- construction -------------------------------------------------------
\* EncoderType.from_string: the member of that name, or a failure.
from_string(s) == IF s \in EncoderType THEN s ELSE "raise"

Init ==
    /\ pc = "new"
    /\ encoder_type = "None"
    /\ pooler_head = FALSE
    /\ sentences = <<>>
    /\ batch_size = 1
    /\ arg_convert_to_numpy = FALSE
    /\ convert_to_numpy = FALSE
    /\ convert_to_tensor = FALSE
    /\ input_is_string = FALSE
    /\ length_sorted_idx = <<>>
    /\ sentences_sorted = <<>>
    /\ start_index = 0
    /\ all_embeddings = <<>>
    /\ embeddings = NoneValue
    /\ result = NoResult
    /\ error = "None"
    /\ adapter_log = <<>>
    /\ eval_dataset = <<>>
    /\ batch_labels = <<>>
    /\ batch_preds = <<>>
    /\ results = <<>>
    /\ corr_calls = 0

\* BaseSentenceModel.__init__ -> BaseModel.__init__.  arch_ok says whether
\* model_arch (after its own from_string) is a member of ModelArch; head
\* says whether the loaded model has a pooling head.
\* Faulty variant of EncoderTypeRejected: nothing is rejected.
EncoderTypeAccepted(converted) == FALSE

\* Line 45: the test that rejects encoder_type.
EncoderTypeRejected(converted) ==
    converted \notin EncoderType /\ converted # "None"

BaseModelInit(arch_ok, selector, head) ==
    /\ pc = "new"
    /\ LET converted == IF selector.is_str THEN from_string(selector.v)
                        ELSE selector.v
       IN  IF ~arch_ok
           THEN /\ pc' = "ctor_raised"
                /\ error' = "ValueError"
                /\ UNCHANGED objVars
           ELSE IF converted = "raise"
           THEN /\ pc' = "ctor_raised"
                /\ error' = "InvalidConfigurationError"
                /\ UNCHANGED objVars
           ELSE IF EncoderTypeRejected(converted)
           THEN /\ pc' = "ctor_raised"
                /\ error' = "ValueError"
                /\ UNCHANGED objVars
           ELSE /\ pc' = "idle"
                /\ encoder_type' = converted
                /\ pooler_head' = head
                /\ UNCHANGED error
    /\ UNCHANGED <<encVars, evalVars, batch_size, start_index, embeddings,
                   adapter_log>>

Construct ==
    /\ pc = "new"
    /\ \E arch_ok \in BOOLEAN, selector \in Selectors, head \in BOOLEAN :
          BaseModelInit(arch_ok, selector, head)

\* ---- tokenizer and pooling ----------------------------------------------
\* self.tokenizer(..., max_length, padding=True, truncation=True): a sentence
\* yields one token per character, truncated at max_length; the batch is
\* padded to its longest member.
TokenCount(s) == Min(Len(s), max_seq_length)
PadLen(batch) == SeqMax([k \in DOMAIN batch |-> TokenCount(batch[k])])

Row(s, strategy, span, pos) ==
    [sent |-> s, strategy |-> strategy, span |-> span, pos |-> pos,
     dev |-> "device", lib |-> "torch"]

\* Faulty variant of PoolerOutput: an output even without a head.
PoolerOutputAlways(head, rows) == Some(rows)

\* Line 160: model_output.pooler_output, None when the model has no head.
PoolerOutput(head, rows) == IF head THEN Some(rows) ELSE NoneValue

\* get_sentence_embeddings, given the adapter's output for batch.  span is
\* the number of token positions the strategy pools over; base is the number
\* of rows the call produced before this batch.
get_sentence_embeddings(et, head, batch, base) ==
    LET seq_length == PadLen(batch)
        rows(span(_)) == [k \in DOMAIN batch |->
                             Row(batch[k], et, span(k), base + k)]
        full(k) == seq_length
        one(k) == 1
        masked(k) == TokenCount(batch[k])
    IN  IF et = "FIRST_LAST_AVG" THEN Some(rows(full))
        ELSE IF et = "LAST_AVG" THEN Some(rows(full))
        ELSE IF et = "CLS" THEN Some(rows(one))
        ELSE IF et = "POOLER"
             THEN PoolerOutput(head, rows(one))
        ELSE IF et = "MEAN" THEN Some(rows(masked))
        ELSE NoneValue

\* ---- encode -------------------------------------------------------------
\* Faulty variant of ArgSorts: descending instead of ascending keys.
ArgSortsDescending(keys) ==
    LET n == Len(keys)
    IN  {p \in [1..n -> 1..n] :
            /\ \A i, j \in 1..n : i # j => p[i] # p[j]
            /\ \A i \in 1..(n - 1) : keys[p[i]] >= keys[p[i + 1]]}

\* np.argsort(keys): a permutation p of the positions with keys[p] ascending;
\* the order among equal keys is not specified (the default sort is not
\* stable), so every such permutation is possible.
ArgSorts(keys) ==
    LET n == Len(keys)
    IN  {p \in [1..n -> 1..n] :
            /\ \A i, j \in 1..n : i # j => p[i] # p[j]
            /\ \A i \in 1..(n - 1) : keys[p[i]] <= keys[p[i + 1]]}

\* Faulty variant of NormalizeNumpy: the flag is left as passed.
KeepNumpy(to_numpy, to_tensor) == to_numpy

\* Lines 181-182: convert_to_tensor switches convert_to_numpy off.
NormalizeNumpy(to_numpy, to_tensor) == IF to_tensor THEN FALSE ELSE to_numpy

\* Faulty variant of LoopHasNext: one more iteration, at len(sentences).
LoopHasNextInclusive(start, n) == start <= n

\* Line 191: trange(0, len(sentences), batch_size) has a value at start.
LoopHasNext(start, n) == start < n

\* Lines 178-190: flags, wrapping of a single string, length sort.
EncodeEnter(input, is_str, bs, to_numpy, to_tensor) ==
    /\ pc = "idle"
    /\ LET wrapped == IF is_str THEN <<input>> ELSE input
           keys == [i \in DOMAIN wrapped |-> 0 - Len(wrapped[i])]
       IN  \E idx \in ArgSorts(keys) :
             /\ sentences' = wrapped
             /\ input_is_string' = is_str
             /\ length_sorted_idx' = idx
             /\ sentences_sorted' = [j \in DOMAIN wrapped |-> wrapped[idx[j]]]
    /\ batch_size' = bs
    /\ arg_convert_to_numpy' = to_numpy
    /\ convert_to_numpy' = NormalizeNumpy(to_numpy, to_tensor)
    /\ convert_to_tensor' = to_tensor
    /\ all_embeddings' = <<>>
    /\ start_index' = 0
    /\ pc' = "encode_loop"
    /\ UNCHANGED <<objVars, evalVars, embeddings, result, error, adapter_log>>

Encode ==
    /\ pc = "idle"
    /\ \E bs \in 1..MaxBatch, to_numpy \in BOOLEAN, to_tensor \in BOOLEAN :
          \/ \E s \in Sentences :
                EncodeEnter(s, TRUE, bs, to_numpy, to_tensor)
          \/ \E l \in SentenceLists :
                EncodeEnter(l, FALSE, bs, to_numpy, to_tensor)

\* embeddings.cpu()
Cpu(e) == [e EXCEPT !.dev = "cpu"]

\* Faulty variant of Collect: the batch is put in front.
CollectPrepend(acc, rows, to_numpy) ==
    (IF to_numpy THEN [k \in DOMAIN rows |-> Cpu(rows[k])] ELSE rows) \o acc

\* Lines 198-201 for one batch: detach, move to the CPU if numpy output is
\* wanted, extend all_embeddings.
Collect(acc, rows, to_numpy) ==
    acc \o (IF to_numpy THEN [k \in DOMAIN rows |-> Cpu(rows[k])] ELSE rows)

\* One iteration of the loop of line 191 in which tokenizer and model
\* return normally.
EncodeBatch ==
    /\ pc = "encode_loop"
    /\ LoopHasNext(start_index, Len(sentences))
    /\ LET sentences_batch == Slice(sentences_sorted, start_index,
                                    start_index + batch_size)
           out == get_sentence_embeddings(encoder_type, pooler_head,
                                          sentences_batch, start_index)
       IN  /\ adapter_log' = Append(adapter_log,
                                    [batch |-> sentences_batch, ok |-> TRUE])
           /\ embeddings' = out
           /\ IF out.none
              THEN \* None.detach()
                   /\ pc' = "enc_raised"
                   /\ error' = "AttributeError"
                   /\ UNCHANGED <<all_embeddings, start_index>>
              ELSE /\ all_embeddings' = Collect(all_embeddings, out.rows,
                                                convert_to_numpy)
                   /\ start_index' = start_index + batch_size
                   /\ UNCHANGED <<pc, error>>
    /\ UNCHANGED <<objVars, evalVars, sentences, batch_size,
                   arg_convert_to_numpy, convert_to_numpy, convert_to_tensor,
                   input_is_string, length_sorted_idx, sentences_sorted,
                   result>>

\* Faulty variant of EncodeBatchFails: the failure is swallowed and the loop
\* goes on with the next batch.
EncodeBatchFailsContinue ==
    /\ pc = "encode_loop"
    /\ LoopHasNext(start_index, Len(sentences))
    /\ adapter_log' = Append(adapter_log,
           [batch |-> Slice(sentences_sorted, start_index,
                            start_index + batch_size),
            ok |-> FALSE])
    /\ start_index' = start_index + batch_size
    /\ UNCHANGED <<objVars, encVars, evalVars, batch_size, embeddings, pc,
                   error>>

\* One iteration in which the tokenizer or the model raises: nothing
\* catches it, so it leaves encode.
EncodeBatchFails ==
    /\ pc = "encode_loop"
    /\ LoopHasNext(start_index, Len(sentences))
    /\ adapter_log' = Append(adapter_log,
           [batch |-> Slice(sentences_sorted, start_index,
                            start_index + batch_size),
            ok |-> FALSE])
    /\ pc' = "enc_raised"
    /\ error' = "AdapterFailure"
    /\ UNCHANGED <<objVars, encVars, evalVars, batch_size, start_index,
                   embeddings>>

\* emb.numpy(): only a CPU tensor converts.
Numpy(e) == [e EXCEPT !.lib = "numpy"]

\* Faulty variant of Restore: the sort permutation itself, not its inverse.
RestoreForward(embs, idx) == [i \in DOMAIN idx |-> embs[idx[i]]]

\* Line 202: all_embeddings[idx] for idx in np.argsort(length_sorted_idx).
Restore(embs, idx) ==
    LET inv == CHOOSE p \in ArgSorts(idx) : TRUE
    IN  [i \in DOMAIN idx |-> embs[inv[i]]]

\* Lines 203-206: the outcome of the format step, as the error it raises
\* ("None" if none) and the value it yields.
Convert(embs, to_numpy, to_tensor) ==
    IF to_tensor
    THEN IF embs = <<>>
         THEN [error |-> "RuntimeError", value |-> NoResult]
         ELSE [error |-> "None",
               value |-> [fmt |-> "tensor", unwrapped |-> FALSE, rows |-> embs]]
    ELSE IF to_numpy
    THEN IF \E k \in DOMAIN embs : embs[k].dev # "cpu"
         THEN [error |-> "TypeError", value |-> NoResult]
         ELSE [error |-> "None",
               value |-> [fmt |-> "ndarray", unwrapped |-> FALSE,
                          rows |-> [k \in DOMAIN embs |-> Numpy(embs[k])]]]
    ELSE [error |-> "None",
          value |-> [fmt |-> "list", unwrapped |-> FALSE, rows |-> embs]]

\* Faulty variant of Unwrap: the sequence is returned as it is.
UnwrapNever(value, is_str) == value

\* Lines 208-209: all_embeddings[0] for a single-string input.
Unwrap(value, is_str) ==
    IF is_str
    THEN [value EXCEPT !.unwrapped = TRUE, !.rows = <<value.rows[1]>>]
    ELSE value

\* Lines 202-211, once the loop is exhausted.
EncodeFinish ==
    /\ pc = "encode_loop"
    /\ ~LoopHasNext(start_index, Len(sentences))
    /\ LET restored == Restore(all_embeddings, length_sorted_idx)
           conv == Convert(restored, convert_to_numpy, convert_to_tensor)
       IN  IF conv.error # "None"
           THEN /\ pc' = "enc_raised"
                /\ error' = conv.error
                /\ all_embeddings' = restored
                /\ UNCHANGED result
           ELSE /\ pc' = "enc_done"
                /\ result' = Unwrap(conv.value, input_is_string)
                /\ all_embeddings' = restored
                /\ UNCHANGED error
    /\ UNCHANGED <<objVars, evalVars, sentences, batch_size,
                   arg_convert_to_numpy, convert_to_numpy, convert_to_tensor,
                   input_is_string, length_sorted_idx, sentences_sorted,
                   start_index, embeddings, adapter_log>>

\* ---- evaluate -----------------------------------------------------------
\* Lines 214-221.  DataLoader(eval_dataset, batch_size) yields consecutive
\* batches in dataset order, the last one possibly shorter.
EvaluateEnter(dataset, bs) ==
    /\ pc = "idle"
    /\ eval_dataset' = dataset
    /\ batch_size' = bs
    /\ start_index' = 0
    /\ batch_labels' = <<>>
    /\ batch_preds' = <<>>
    /\ results' = <<>>
    /\ pc' = "evaluate_loop"
    /\ UNCHANGED <<objVars, encVars, embeddings, error, adapter_log,
                   corr_calls>>

Evaluate ==
    /\ pc = "idle"
    /\ \E dataset \in PairLists, bs \in 1..MaxBatch :
          EvaluateEnter(dataset, bs)

\* Faulty variant of cosine_similarity: one value for the whole batch.
cosine_similarity_flat(src, tgt) ==
    <<[source |-> src[1], target |-> tgt[1]]>>

\* torch.cosine_similarity(source_embeddings, target_embeddings), row by row.
cosine_similarity(src, tgt) ==
    [k \in DOMAIN src |-> [source |-> src[k], target |-> tgt[k]]]

Field(batch, f) == [k \in DOMAIN batch |-> batch[k][f]]

\* Lines 223-242 for one batch in which the model returns normally twice.
EvaluateBatch ==
    /\ pc = "evaluate_loop"
    /\ start_index < Len(eval_dataset)
    /\ LET batch == Slice(eval_dataset, start_index, start_index + batch_size)
           source == Field(batch, "source")
           target == Field(batch, "target")
           source_embeddings == get_sentence_embeddings(
                                    encoder_type, pooler_head, source, start_index)
           target_embeddings == get_sentence_embeddings(
                                    encoder_type, pooler_head, target, start_index)
       IN  /\ batch_labels' = batch_labels \o Field(batch, "label")
           /\ adapter_log' = adapter_log \o <<[batch |-> source, ok |-> TRUE],
                                              [batch |-> target, ok |-> TRUE]>>
           /\ embeddings' = target_embeddings
           /\ IF source_embeddings.none \/ target_embeddings.none
              THEN \* cosine_similarity(None, None)
                   /\ pc' = "eval_raised"
                   /\ error' = "TypeError"
                   /\ UNCHANGED <<batch_preds, start_index>>
              ELSE /\ batch_preds' = batch_preds \o
                         cosine_similarity(source_embeddings.rows,
                                           target_embeddings.rows)
                   /\ start_index' = start_index + batch_size
                   /\ UNCHANGED <<pc, error>>
    /\ UNCHANGED <<objVars, encVars, eval_dataset, batch_size, results,
                   corr_calls>>

\* One batch in which the model raises, on the source side (n_ok = 0) or on
\* the target side (n_ok = 1); the labels of the batch are already appended.
EvaluateBatchFails ==
    /\ pc = "evaluate_loop"
    /\ start_index < Len(eval_dataset)
    /\ \E n_ok \in 0..1 :
         LET batch == Slice(eval_dataset, start_index, start_index + batch_size)
             calls == <<[batch |-> Field(batch, "source"), ok |-> (n_ok = 1)],
                        [batch |-> Field(batch, "target"), ok |-> FALSE]>>
         IN  /\ batch_labels' = batch_labels \o Field(batch, "label")
             /\ adapter_log' = adapter_log \o SubSeq(calls, 1, n_ok + 1)
    /\ pc' = "eval_raised"
    /\ error' = "AdapterFailure"
    /\ UNCHANGED <<objVars, encVars, eval_dataset, batch_size, start_index,
                   embeddings, batch_preds, results, corr_calls>>

\* compute_spearmanr / compute_pearsonr applied to the two sequences.
compute_corr(metric, x, y) == [metric |-> metric, x |-> x, y |-> y]

\* Lines 250-251.
EvalResults(labels, preds) ==
    ("eval_spearman" :> compute_corr("spearman", labels, preds)) @@
    ("eval_pearson" :> compute_corr("pearson", labels, preds))

\* Lines 244-258, once the loader is exhausted.  (Writing eval_results.txt
\* when output_dir is given changes nothing the model keeps.)
EvaluateFinish ==
    /\ pc = "evaluate_loop"
    /\ start_index >= Len(eval_dataset)
    /\ results' = EvalResults(batch_labels, batch_preds)
    /\ corr_calls' = corr_calls + 2
    /\ pc' = "eval_done"
    /\ UNCHANGED <<objVars, encVars, eval_dataset, batch_size, start_index,
                   embeddings, error, adapter_log, batch_labels, batch_preds>>

\* The call is over (a value returned or an exception propagated); the
\* caller may make another call on the same object.
Return ==
    /\ pc \in {"enc_done", "enc_raised", "eval_done", "eval_raised"}
    /\ pc' = "idle"
    /\ sentences' = <<>>
    /\ batch_size' = 1
    /\ arg_convert_to_numpy' = FALSE
    /\ convert_to_numpy' = FALSE
    /\ convert_to_tensor' = FALSE
    /\ input_is_string' = FALSE
    /\ length_sorted_idx' = <<>>
    /\ sentences_sorted' = <<>>
    /\ start_index' = 0
    /\ all_embeddings' = <<>>
    /\ embeddings' = NoneValue
    /\ result' = NoResult
    /\ error' = "None"
    /\ adapter_log' = <<>>
    /\ eval_dataset' = <<>>
    /\ batch_labels' = <<>>
    /\ batch_preds' = <<>>
    /\ results' = <<>>
    /\ corr_calls' = 0
    /\ UNCHANGED objVars

Next ==
    \/ Construct
    \/ Encode
    \/ EncodeBatch
    \/ EncodeBatchFails
    \/ EncodeFinish
    \/ Evaluate
    \/ EvaluateBatch
    \/ EvaluateBatchFails
    \/ EvaluateFinish
    \/ Return

Spec == Init /\ [][Next]_vars

\* ---- properties ---------------------------------------------------------
InEncode == pc \in {"encode_loop", "enc_done", "enc_raised"}

\* get_sentence_embeddings has returned to the running call.
Pooled == adapter_log # <<>> /\ adapter_log[Len(adapter_log)].ok

\* ceil(n / b)
CeilDiv(n, b) == (n + b - 1) \div b

\* The k-th batch of the sorted sentences.
Chunk(k) == Slice(sentences_sorted, (k - 1) * batch_size, k * batch_size)

\* What pooling produced for sorted position p (in the batch that holds it).
PooledAt(p) ==
    LET k == ((p - 1) \div batch_size) + 1
    IN  get_sentence_embeddings(encoder_type, pooler_head, Chunk(k),
                                (k - 1) * batch_size).rows[p - (k - 1) * batch_size]

SameEmbedding(e, f) ==
    /\ e.sent = f.sent
    /\ e.strategy = f.strategy
    /\ e.span = f.span
    /\ e.pos = f.pos

RECURSIVE Flatten(_)
Flatten(log) ==
    IF log = <<>> THEN <<>>
    ELSE Flatten(SubSeq(log, 1, Len(log) - 1)) \o log[Len(log)].batch

\* C1: when encode returns for a non-empty input, it returns exactly
\* len(sentences) embeddings, and the one at position i is the one pooling
\* produced for sentences[i]: it was computed for that sentence, at the
\* sorted position that length_sorted_idx maps back to i.
C1_OrderRestored ==
    (pc = "enc_done" /\ Len(sentences) >= 1) =>
        /\ Len(result.rows) = Len(sentences)
        /\ \A i \in DOMAIN sentences :
              LET e == result.rows[i]
              IN  /\ e.sent = sentences[i]
                  /\ e.pos \in DOMAIN length_sorted_idx
                  /\ length_sorted_idx[e.pos] = i
                  /\ SameEmbedding(e, PooledAt(e.pos))

\* An encode that returned after a real reordering, with a batch size
\* smaller than the input and two sentences of equal length.
C1_Witness ==
    /\ pc = "enc_done"
    /\ ~input_is_string
    /\ batch_size < Len(sentences)
    /\ \E i \in DOMAIN length_sorted_idx :
          length_sorted_idx[length_sorted_idx[i]] # i
    /\ \E i, j \in DOMAIN sentences :
          i # j /\ Len(sentences[i]) = Len(sentences[j])
    /\ Len(result.rows) = Len(sentences)

\* C2: for a single string encode returns one embedding, not wrapped in a
\* sequence, computed for that string; for a list (also of one element) it
\* returns a sequence as long as the list.
C2_SingleOrList ==
    pc = "enc_done" =>
        IF input_is_string
        THEN /\ result.unwrapped
             /\ Len(result.rows) = 1
             /\ result.rows[1].sent = sentences[1]
             /\ SameEmbedding(result.rows[1], PooledAt(1))
        ELSE /\ ~result.unwrapped
             /\ Len(result.rows) = Len(sentences)

\* An encode of a single string that returned.
C2_Witness ==
    /\ pc = "enc_done"
    /\ input_is_string
    /\ result.unwrapped
    /\ result.rows[1].sent = sentences[1]

\* C3: the sentences are reordered by descending character length and cut
\* into consecutive batches: each batch holds 1..batch_size sentences, the
\* batches taken together are the sorted sentences (each input sentence in
\* exactly one batch), and a sentence of an earlier batch is at least as
\* long as a sentence of a later batch.
C3_SortedBatches ==
    InEncode =>
        LET n == Len(sentences)
            flat == Flatten(adapter_log)
        IN  /\ Len(sentences_sorted) = n
            /\ Len(length_sorted_idx) = n
            /\ {length_sorted_idx[j] : j \in 1..n} = 1..n
            /\ \A j \in 1..n :
                  sentences_sorted[j] = sentences[length_sorted_idx[j]]
            /\ \A i, j \in 1..n :
                  i < j => Len(sentences_sorted[i]) >= Len(sentences_sorted[j])
            /\ \A k \in DOMAIN adapter_log :
                  /\ Len(adapter_log[k].batch) >= 1
                  /\ Len(adapter_log[k].batch) <= batch_size
            /\ Len(flat) <= n
            /\ flat = SubSeq(sentences_sorted, 1, Len(flat))
            /\ pc = "enc_done" => flat = sentences_sorted
            /\ \A k, l \in DOMAIN adapter_log :
                  k < l =>
                     \A a \in DOMAIN adapter_log[k].batch,
                        b \in DOMAIN adapter_log[l].batch :
                        Len(adapter_log[k].batch[a]) >= Len(adapter_log[l].batch[b])

\* An encode that returned after two batches, the second one short, over
\* sentences of different lengths that the sort had to move.
C3_Witness ==
    /\ pc = "enc_done"
    /\ Len(adapter_log) = 2
    /\ Len(adapter_log[2].batch) < batch_size
    /\ sentences_sorted # sentences
    /\ Len(adapter_log[1].batch[1]) > Len(adapter_log[2].batch[1])

\* C4: a failure of the adapter (or tokenizer) on a batch leaves encode at
\* once: the failed invocation is the last one of the call (no later batch,
\* no second attempt), the call ends raised with that failure, and it
\* returns nothing, also when earlier batches had completed.
C4_FailureAborts ==
    InEncode =>
        \A k \in DOMAIN adapter_log :
            ~adapter_log[k].ok =>
                /\ k = Len(adapter_log)
                /\ adapter_log[k].batch = Chunk(k)
                /\ pc = "enc_raised"
                /\ error = "AdapterFailure"
                /\ result = NoResult

\* A failure on the second batch, after the first one was collected.
C4_Witness ==
    /\ pc = "enc_raised"
    /\ error = "AdapterFailure"
    /\ Len(adapter_log) = 2
    /\ adapter_log[1].ok
    /\ ~adapter_log[2].ok
    /\ all_embeddings # <<>>
    /\ result = NoResult

\* C5: when evaluate returns, it has one prediction and one label per pair,
\* in dataset order (position k of both is about pair k), and its result has
\* exactly the keys eval_pearson and eval_spearman, each computed once over
\* the full accumulated sequences.
C5_EvaluateAccumulates ==
    pc = "eval_done" =>
        LET n == Len(eval_dataset)
        IN  /\ Len(batch_labels) = n
            /\ Len(batch_preds) = n
            /\ \A k \in 1..n :
                  /\ batch_labels[k] = eval_dataset[k].label
                  /\ batch_preds[k].source.sent = eval_dataset[k].source
                  /\ batch_preds[k].target.sent = eval_dataset[k].target
                  /\ batch_preds[k].source.pos = k
                  /\ batch_preds[k].target.pos = k
            /\ DOMAIN results = {"eval_pearson", "eval_spearman"}
            /\ \A key \in DOMAIN results :
                  /\ results[key].x = batch_labels
                  /\ results[key].y = batch_preds
            /\ results["eval_pearson"].metric = "pearson"
            /\ results["eval_spearman"].metric = "spearman"
            /\ corr_calls = 2

\* An evaluate that returned after more than one batch, over pairs that
\* differ.
C5_Witness ==
    /\ pc = "eval_done"
    /\ Len(eval_dataset) = 2
    /\ batch_size = 1
    /\ eval_dataset[1] # eval_dataset[2]
    /\ Len(batch_preds) = 2

\* C6 (as stated): whatever the two flags, encode returns either a sequence
\* of native numeric arrays or one stacked tensor, and convert_to_tensor
\* takes precedence.
C6_TwoFormatsOnly ==
    pc = "enc_done" =>
        /\ result.fmt \in {"ndarray", "tensor"}
        /\ convert_to_tensor => result.fmt = "tensor"

\* C6 (amended): encode returns in exactly one of three forms, decided by
\* the flags: one stacked tensor when convert_to_tensor is set (the numeric
\* array conversion, the move to the CPU included, is then not applied even
\* if convert_to_numpy was passed), numeric arrays when only convert_to_numpy
\* is set, and a plain list of tensors when neither is set.
C6_ThreeFormats ==
    pc = "enc_done" =>
        /\ convert_to_tensor =>
              /\ result.fmt = "tensor"
              /\ \A k \in DOMAIN result.rows :
                    result.rows[k].lib = "torch" /\ result.rows[k].dev = "device"
        /\ (~convert_to_tensor /\ arg_convert_to_numpy) =>
              /\ result.fmt = "ndarray"
              /\ \A k \in DOMAIN result.rows :
                    result.rows[k].lib = "numpy" /\ result.rows[k].dev = "cpu"
        /\ (~convert_to_tensor /\ ~arg_convert_to_numpy) =>
              /\ result.fmt = "list"
              /\ \A k \in DOMAIN result.rows :
                    result.rows[k].lib = "torch" /\ result.rows[k].dev = "device"

\* An encode of a list that returned with both flags off.
C6_Witness ==
    /\ pc = "enc_done"
    /\ ~convert_to_tensor
    /\ ~arg_convert_to_numpy
    /\ Len(sentences) >= 2
    /\ result.fmt = "list"

\* C7 (as stated): encode of an empty sequence fails with InvalidInputError,
\* returns nothing and never invokes the adapter.
C7_EmptyRejected ==
    (InEncode /\ ~input_is_string /\ sentences = <<>>) =>
        /\ pc # "enc_done"
        /\ adapter_log = <<>>
        /\ pc = "enc_raised" => error = "InvalidInputError"

\* C7 (amended): encode of an empty sequence never invokes the adapter; with
\* convert_to_tensor unset it returns an empty result, and with
\* convert_to_tensor set it fails in the stacking step (RuntimeError), not
\* with InvalidInputError.
C7_EmptyReturnsEmpty ==
    (InEncode /\ ~input_is_string /\ sentences = <<>>) =>
        /\ adapter_log = <<>>
        /\ pc = "enc_done" =>
              /\ ~convert_to_tensor
              /\ result.rows = <<>>
              /\ ~result.unwrapped
              /\ result.fmt = (IF convert_to_numpy THEN "ndarray" ELSE "list")
        /\ pc = "enc_raised" =>
              /\ convert_to_tensor
              /\ error = "RuntimeError"
              /\ result = NoResult

\* An encode of the empty list that returned (an empty result).
C7_Witness ==
    /\ pc = "enc_done"
    /\ ~input_is_string
    /\ sentences = <<>>
    /\ result.rows = <<>>
    /\ result.fmt # "none"

\* C8 (as stated): with POOLER, pooling returns the pooling head's output
\* when there is one and fails with UnsupportedConfigurationError when there
\* is none; it never returns None.
C8_PoolerOrError ==
    (encoder_type = "POOLER" /\ Pooled) =>
        /\ ~embeddings.none
        /\ ~pooler_head => error = "UnsupportedConfigurationError"

\* C8 (amended): with POOLER, pooling returns the adapter's pooler_output as
\* it is: the head's output when there is one, and None, without raising,
\* when there is none; the caller then fails on the None (AttributeError in
\* encode, TypeError in evaluate) and returns nothing.
C8_PoolerOrNone ==
    (encoder_type = "POOLER" /\ Pooled) =>
        IF pooler_head
        THEN /\ ~embeddings.none
             /\ \A k \in DOMAIN embeddings.rows :
                   embeddings.rows[k].strategy = "POOLER"
        ELSE /\ embeddings.none
             /\ pc \in {"enc_raised", "eval_raised"}
             /\ error = (IF pc = "enc_raised" THEN "AttributeError"
                         ELSE "TypeError")
             /\ result = NoResult
             /\ DOMAIN results = {}

\* POOLER on a model without a head: pooling returned None inside encode.
C8_Witness ==
    /\ encoder_type = "POOLER"
    /\ ~pooler_head
    /\ Pooled
    /\ embeddings.none
    /\ pc = "enc_raised"
    /\ error = "AttributeError"

\* C9 (as stated): a selector outside the five named strategies is rejected,
\* so every model object holds one of the five and pooling always returns an
\* embedding.
C9_FiveOnly ==
    /\ pc \notin {"new", "ctor_raised"} => encoder_type \in EncoderType
    /\ Pooled => ~embeddings.none

\* C9 (amended): a selector that is neither one of the five named strategies
\* nor None is rejected at construction; None is accepted, and pooling on
\* such an object dispatches to no variant and returns None.  With one of
\* the five, pooling dispatches to exactly that variant, which returns an
\* embedding per sentence (for POOLER: when the model has a pooling head).
C9_FiveOrNone ==
    /\ pc \notin {"new", "ctor_raised"} =>
          encoder_type \in EncoderType \cup {"None"}
    /\ pc = "ctor_raised" =>
          error \in {"ValueError", "InvalidConfigurationError"}
    /\ Pooled =>
          IF encoder_type = "None" THEN embeddings.none
          ELSE IF encoder_type = "POOLER" /\ ~pooler_head THEN embeddings.none
          ELSE /\ ~embeddings.none
               /\ \A k \in DOMAIN embeddings.rows :
                     embeddings.rows[k].strategy = encoder_type

\* An object constructed with selector None reached pooling, which
\* returned None.
C9_Witness ==
    /\ encoder_type = "None"
    /\ Pooled
    /\ embeddings.none
    /\ pc = "enc_raised"

\* C10: encode invokes the adapter once per batch, one batch after another
\* in sorted-batch order: before batch k+1 starts, batches 1..k have been
\* invoked and their embeddings appended, in sorted order; an encode that
\* returns has made exactly ceil(n / batch_size) invocations.
C10_SequentialBatches ==
    InEncode =>
        LET n == Len(sentences)
        IN  /\ \A k \in DOMAIN adapter_log : adapter_log[k].batch = Chunk(k)
            /\ Len(adapter_log) <= CeilDiv(n, batch_size)
            /\ pc = "encode_loop" =>
                  /\ start_index = batch_size * Len(adapter_log)
                  /\ Len(all_embeddings) = Min(start_index, n)
                  /\ \A j \in DOMAIN all_embeddings :
                        /\ all_embeddings[j].pos = j
                        /\ all_embeddings[j].sent = sentences_sorted[j]
            /\ pc = "enc_done" =>
                  Len(adapter_log) = CeilDiv(n, batch_size)

\* An encode of three sentences in batches of two that returned: two
\* invocations.
C10_Witness ==
    /\ pc = "enc_done"
    /\ Len(sentences) = 3
    /\ batch_size = 2
    /\ Len(adapter_log) = 2

====
